---- MODULE Spec2Model ----
(***************************************************************************)
(* The prompt-manager data model of app/models.py: the three tables        *)
(* (prompt_categories, prompts, prompt_executions), the Create and Update  *)
(* schemas that validate request payloads, and the create / update /       *)
(* execution-recording steps of the owning service that write the tables.  *)
(*                                                                         *)
(* Representation of Python values:                                        *)
(*   str            a sequence of one-character strings, so len() is Len   *)
(*   Optional[T]    None == {} or Some(v) == {v}                           *)
(*   Dict[str,Any]  a set of <<key, value>> pairs                          *)
(*   List[str]      a sequence of str                                      *)
(*   Decimal        [coef |-> integer, exp |-> integer <= 0],              *)
(*                  the value coef * 10^exp                                *)
(*   datetime       the request counter `now`                              *)
(* A request payload is a function from the field names the client sent to *)
(* Optional values (None is an explicit JSON null).                        *)
(***************************************************************************)
EXTENDS Integers, Sequences, FiniteSets, TLC

VARIABLES prompt_categories, prompts, prompt_executions, now, last

vars == <<prompt_categories, prompts, prompt_executions, now, last>>

\* Number of requests a behaviour makes.
MaxRequests == 3

---------------------------------------------------------------------------
\* Python values

None == {}

Some(v) == {v}

The(o) == CHOOSE v \in o : TRUE

\* A string of n characters.
Str(n) == [i \in 1..n |-> "x"]

Dec(c, e) == [coef |-> c, exp |-> e]

Abs(n) == IF n < 0 THEN -n ELSE n

RECURSIVE Pow10(_)
Pow10(n) == IF n <= 0 THEN 1 ELSE 10 * Pow10(n - 1)

\* Number of decimal digits of the coefficient (Decimal.as_tuple().digits).
RECURSIVE NumDigits(_)
NumDigits(n) == IF Abs(n) < 10 THEN 1 ELSE 1 + NumDigits(Abs(n) \div 10)

\* The value of a Decimal in units of 10^-scale (scale >= -d.exp).
Scaled(d, scale) == d.coef * Pow10(scale + d.exp)

\* The payload restricted to the fields the schema declares: the schema
\* classes keep pydantic's default of ignoring undeclared keys.
Declared(kw, fields) == [f \in (DOMAIN kw) \cap fields |-> kw[f]]

---------------------------------------------------------------------------
\* Field constraints of the schema classes (table=False), which pydantic
\* validates on construction.

\* StrField with the bound off by one.
StrFieldExclusive(o, nullable, max_length) ==
    IF o = None THEN nullable ELSE Len(The(o)) < max_length

\* Field(max_length=n) on a str (nullable: the annotation is Optional[str]).
StrField(o, nullable, max_length) ==
    IF o = None THEN nullable ELSE Len(The(o)) <= max_length

\* Field(ge=lo, le=hi) on an Optional[int].
IntRangeField(o, lo, hi) ==
    o = None \/ (The(o) >= lo /\ The(o) <= hi)

\* Field(max_digits=m, decimal_places=p) on an Optional[Decimal].
DecimalField(o, max_digits, decimal_places) ==
    \/ o = None
    \/ LET d == The(o)
           n == NumDigits(d.coef)
           decimals == -d.exp
           digits == IF decimals > n THEN decimals ELSE n
       IN  /\ digits <= max_digits
           /\ decimals <= decimal_places
           /\ digits - decimals <= max_digits - decimal_places

\* A field annotated with a plain (non-Optional) type rejects null.
NotNull(o) == o # None

---------------------------------------------------------------------------
\* prompt_categories

DefaultColor == <<"#", "3", "B", "8", "2", "F", "6">>

PromptCategoryCreateFields == {"name", "description", "color"}

PromptCategoryCreateDefaults ==
    [description |-> <<>>, color |-> DefaultColor]

PromptCategoryCreateValid(kw) ==
    /\ "name" \in DOMAIN kw
    /\ \A f \in DOMAIN kw :
         CASE f = "name" -> StrField(kw[f], FALSE, 100)
           [] f = "description" -> StrField(kw[f], FALSE, 500)
           [] f = "color" -> StrField(kw[f], FALSE, 7)

\* The validated schema object: supplied values, defaults for the rest.
PromptCategoryCreate(kw) ==
    [f \in PromptCategoryCreateFields |->
        IF f \in DOMAIN kw THEN The(kw[f]) ELSE PromptCategoryCreateDefaults[f]]

PromptCategoryUpdateFields == {"name", "description", "color"}

PromptCategoryUpdateValid(kw) ==
    \A f \in DOMAIN kw :
        CASE f = "name" -> StrField(kw[f], TRUE, 100)
          [] f = "description" -> StrField(kw[f], TRUE, 500)
          [] f = "color" -> StrField(kw[f], TRUE, 7)

\* Columns of the table; none is nullable (id is the primary key).
PromptCategoryNullable == {}

\* NameUnique of a column declared without unique=True.
NameUniqueUnchecked(table, id, name) == TRUE

\* unique=True on name: no other row holds the name.
NameUnique(table, id, name) ==
    \A i \in DOMAIN table : i # id => table[i].name # name

\* A new row: the table class's fields from the schema object, id and the
\* default_factory timestamps from the server.
PromptCategoryRow(id, data, t) ==
    [id |-> id, name |-> data.name, description |-> data.description,
     color |-> data.color, created_at |-> t, updated_at |-> t]

---------------------------------------------------------------------------
\* prompts

DefaultVersion == <<"1", ".", "0", ".", "0">>

EmptyDict == {}

PromptCreateFields ==
    {"title", "description", "content", "version", "is_template", "variables",
     "settings", "prompt_metadata", "tags", "category_id"}

PromptCreateDefaults ==
    [description |-> <<>>, version |-> DefaultVersion, is_template |-> FALSE,
     variables |-> EmptyDict, settings |-> EmptyDict, prompt_metadata |-> EmptyDict,
     tags |-> <<>>, category_id |-> None]

PromptCreateValid(kw) ==
    /\ {"title", "content"} \subseteq DOMAIN kw
    /\ \A f \in DOMAIN kw :
         CASE f = "title" -> StrField(kw[f], FALSE, 200)
           [] f = "description" -> StrField(kw[f], FALSE, 1000)
           [] f = "content" -> StrField(kw[f], FALSE, 10000)
           [] f = "version" -> StrField(kw[f], FALSE, 20)
           [] f \in {"is_template", "variables", "settings", "prompt_metadata", "tags"} ->
                NotNull(kw[f])
           [] f = "category_id" -> TRUE

\* PromptCreate with the version's default left out.
PromptCreateBlank(kw) ==
    [f \in PromptCreateFields |->
        IF f \notin DOMAIN kw THEN (IF f = "version" THEN <<>> ELSE PromptCreateDefaults[f])
        ELSE IF f = "category_id" THEN kw[f] ELSE The(kw[f])]

\* The validated schema object; category_id is the one Optional field.
PromptCreate(kw) ==
    [f \in PromptCreateFields |->
        IF f \notin DOMAIN kw THEN PromptCreateDefaults[f]
        ELSE IF f = "category_id" THEN kw[f] ELSE The(kw[f])]

\* PromptUpdateFields of a schema that also declares the usage counters.
PromptUpdateFieldsWithCounters ==
    {"title", "description", "content", "version", "is_active", "is_template",
     "rating", "variables", "settings", "prompt_metadata", "tags", "category_id",
     "usage_count", "last_used_at"}

PromptUpdateFields ==
    {"title", "description", "content", "version", "is_active", "is_template",
     "rating", "variables", "settings", "prompt_metadata", "tags", "category_id"}

PromptUpdateValid(kw) ==
    \A f \in DOMAIN kw :
        CASE f = "title" -> StrField(kw[f], TRUE, 200)
          [] f = "description" -> StrField(kw[f], TRUE, 1000)
          [] f = "content" -> StrField(kw[f], TRUE, 10000)
          [] f = "version" -> StrField(kw[f], TRUE, 20)
          [] f = "rating" -> DecimalField(kw[f], 3, 2)
          [] OTHER -> TRUE

\* Nullable columns: the Optional ones, and the JSON ones, whose
\* sa_column=Column(JSON) is nullable.
PromptNullable ==
    {"rating", "category_id", "last_used_at", "variables", "settings",
     "prompt_metadata", "tags"}

\* ForeignKey of a column declared without foreign_key.
ForeignKeyUnchecked(ref, table) == TRUE

\* foreign_key="prompt_categories.id" / "prompts.id": a non-null reference
\* names a row of the table.
ForeignKey(ref, table) == ref = None \/ The(ref) \in DOMAIN table

\* A new row: the schema object's fields, the table class's defaults for the
\* rest (is_active, usage_count, rating, last_used_at), id and timestamps
\* from the server.
PromptRow(id, data, t) ==
    [id |-> id, title |-> data.title, description |-> data.description,
     content |-> data.content, version |-> data.version, is_active |-> TRUE,
     is_template |-> data.is_template, usage_count |-> 0, rating |-> None,
     variables |-> Some(data.variables), settings |-> Some(data.settings),
     prompt_metadata |-> Some(data.prompt_metadata), tags |-> Some(data.tags),
     category_id |-> data.category_id,
     created_at |-> t, updated_at |-> t, last_used_at |-> None]

---------------------------------------------------------------------------
\* prompt_executions

StatusCompleted == <<"c", "o", "m", "p", "l", "e", "t", "e", "d">>
StatusFailed == <<"f", "a", "i", "l", "e", "d">>
StatusCancelled == <<"c", "a", "n", "c", "e", "l", "l", "e", "d">>
StatusPending == <<"p", "e", "n", "d", "i", "n", "g">>

PromptExecutionCreateFields == {"prompt_id", "input_data", "model_name", "model_settings"}

PromptExecutionCreateDefaults ==
    [input_data |-> EmptyDict, model_name |-> <<>>, model_settings |-> EmptyDict]

PromptExecutionCreateValid(kw) ==
    /\ "prompt_id" \in DOMAIN kw
    /\ \A f \in DOMAIN kw :
         CASE f = "model_name" -> StrField(kw[f], FALSE, 100)
           [] OTHER -> NotNull(kw[f])

PromptExecutionCreate(kw) ==
    [f \in PromptExecutionCreateFields |->
        IF f \in DOMAIN kw THEN The(kw[f]) ELSE PromptExecutionCreateDefaults[f]]

PromptExecutionUpdateFields ==
    {"output_data", "execution_time_ms", "token_count", "cost", "status",
     "error_message", "user_rating", "user_feedback", "completed_at"}

PromptExecutionUpdateValid(kw) ==
    \A f \in DOMAIN kw :
        CASE f = "cost" -> DecimalField(kw[f], 10, 6)
          [] f = "status" -> StrField(kw[f], TRUE, 50)
          [] f = "error_message" -> StrField(kw[f], TRUE, 1000)
          [] f = "user_rating" -> IntRangeField(kw[f], 1, 5)
          [] f = "user_feedback" -> StrField(kw[f], TRUE, 2000)
          [] OTHER -> TRUE

PromptExecutionNullable ==
    {"input_data", "output_data", "model_settings", "execution_time_ms",
     "token_count", "cost", "error_message", "user_rating", "user_feedback",
     "completed_at"}

PromptExecutionRow(id, data, t) ==
    [id |-> id, prompt_id |-> data.prompt_id,
     input_data |-> Some(data.input_data), output_data |-> Some(EmptyDict),
     model_name |-> data.model_name, model_settings |-> Some(data.model_settings),
     execution_time_ms |-> None, token_count |-> None, cost |-> None,
     status |-> StatusCompleted, error_message |-> None, user_rating |-> None,
     user_feedback |-> None, created_at |-> t, completed_at |-> None]

\* The execution-recording step's effect on the executed prompt.
RecordUse(row, t) ==
    [row EXCEPT !.usage_count = @ + 1, !.last_used_at = Some(t)]

---------------------------------------------------------------------------
\* Partial update of a row: the fields the payload carries (the schema
\* object's fields_set) overwrite the row, the rest of the row stays.

\* FieldsSet of a schema that takes a null for an omitted field.
FieldsSetNonNull(kw, fields) == {f \in (DOMAIN kw) \cap fields : kw[f] # None}

\* Fields explicitly set in the payload (pydantic's fields_set).
FieldsSet(kw, fields) == (DOMAIN kw) \cap fields

\* The validated Update schema object: every field is Optional with
\* default None, so an omitted field and an explicit null hold the same
\* value and differ in fields_set alone.
UpdateObject(kw, fields) ==
    [fields_set |-> FieldsSet(kw, fields),
     values |-> [f \in fields |-> IF f \in DOMAIN kw THEN kw[f] ELSE None]]

\* Scale of the NUMERIC columns (decimal_places of the table's field).
DecimalScale == [rating |-> 2, cost |-> 6]

\* Quantize with the column's scale taken as 0.
QuantizeWhole(d, scale) == Dec(Scaled(d, scale) \div Pow10(scale), 0)

\* A Decimal as a NUMERIC(_, scale) column holds it.
Quantize(d, scale) == Dec(Scaled(d, scale), -scale)

\* The value a column stores for a supplied Optional value.
Column(f, o, nullable) ==
    IF f \notin nullable THEN The(o)
    ELSE IF f \in DOMAIN DecimalScale /\ o # None
         THEN Some(Quantize(The(o), DecimalScale[f]))
         ELSE o

\* A supplied null for a NOT NULL column.
NullViolation(obj, nullable) ==
    \E f \in obj.fields_set : f \notin nullable /\ obj.values[f] = None

ApplyUpdate(row, obj, nullable) ==
    [f \in DOMAIN row |->
        IF f \in obj.fields_set THEN Column(f, obj.values[f], nullable) ELSE row[f]]

Touch(row, t) == [row EXCEPT !.updated_at = t]

---------------------------------------------------------------------------
\* Requests.  `last` is the log entry of the latest request: the operation,
\* the row id, the payload, the reply, and the row as it was before.

NoRow == <<>>

Reply(op, id, kw, result, before) ==
    [op |-> op, id |-> id, kw |-> kw, result |-> result, before |-> before]

Rejected(op, id, kw, result) ==
    /\ last' = Reply(op, id, kw, result, NoRow)
    /\ UNCHANGED <<prompt_categories, prompts, prompt_executions>>

CreateCategory(kw) ==
    /\ now < MaxRequests
    /\ now' = now + 1
    /\ LET id == Len(prompt_categories) + 1
           input == Declared(kw, PromptCategoryCreateFields)
       IN  IF ~PromptCategoryCreateValid(input)
           THEN Rejected("create_category", 0, kw, "validation_error")
           ELSE LET row == PromptCategoryRow(id, PromptCategoryCreate(input), now')
                IN  IF ~NameUnique(prompt_categories, id, row.name)
                    THEN Rejected("create_category", 0, kw, "uniqueness_error")
                    ELSE /\ prompt_categories' = Append(prompt_categories, row)
                         /\ last' = Reply("create_category", id, kw, "ok", NoRow)
                         /\ UNCHANGED <<prompts, prompt_executions>>

UpdateCategory(id, kw) ==
    /\ now < MaxRequests
    /\ now' = now + 1
    /\ id \in DOMAIN prompt_categories
    /\ LET input == Declared(kw, PromptCategoryUpdateFields)
           obj == UpdateObject(input, PromptCategoryUpdateFields)
       IN  IF ~PromptCategoryUpdateValid(input)
           THEN Rejected("update_category", id, kw, "validation_error")
           ELSE IF NullViolation(obj, PromptCategoryNullable)
           THEN Rejected("update_category", id, kw, "integrity_error")
           ELSE LET row == Touch(ApplyUpdate(prompt_categories[id], obj,
                                             PromptCategoryNullable), now')
                IN  IF ~NameUnique(prompt_categories, id, row.name)
                    THEN Rejected("update_category", id, kw, "uniqueness_error")
                    ELSE /\ prompt_categories' = [prompt_categories EXCEPT ![id] = row]
                         /\ last' = Reply("update_category", id, kw, "ok",
                                          prompt_categories[id])
                         /\ UNCHANGED <<prompts, prompt_executions>>

CreatePrompt(kw) ==
    /\ now < MaxRequests
    /\ now' = now + 1
    /\ LET id == Len(prompts) + 1
           input == Declared(kw, PromptCreateFields)
       IN  IF ~PromptCreateValid(input)
           THEN Rejected("create_prompt", 0, kw, "validation_error")
           ELSE LET row == PromptRow(id, PromptCreate(input), now')
                IN  IF ~ForeignKey(row.category_id, prompt_categories)
                    THEN Rejected("create_prompt", 0, kw, "referential_error")
                    ELSE /\ prompts' = Append(prompts, row)
                         /\ last' = Reply("create_prompt", id, kw, "ok", NoRow)
                         /\ UNCHANGED <<prompt_categories, prompt_executions>>

UpdatePrompt(id, kw) ==
    /\ now < MaxRequests
    /\ now' = now + 1
    /\ id \in DOMAIN prompts
    /\ LET input == Declared(kw, PromptUpdateFields)
           obj == UpdateObject(input, PromptUpdateFields)
       IN  IF ~PromptUpdateValid(input)
           THEN Rejected("update_prompt", id, kw, "validation_error")
           ELSE IF NullViolation(obj, PromptNullable)
           THEN Rejected("update_prompt", id, kw, "integrity_error")
           ELSE LET row == Touch(ApplyUpdate(prompts[id], obj, PromptNullable), now')
                IN  IF ~ForeignKey(row.category_id, prompt_categories)
                    THEN Rejected("update_prompt", id, kw, "referential_error")
                    ELSE /\ prompts' = [prompts EXCEPT ![id] = row]
                         /\ last' = Reply("update_prompt", id, kw, "ok", prompts[id])
                         /\ UNCHANGED <<prompt_categories, prompt_executions>>

\* The execution-recording step: stores the execution and counts the use.
CreateExecution(kw) ==
    /\ now < MaxRequests
    /\ now' = now + 1
    /\ LET id == Len(prompt_executions) + 1
           input == Declared(kw, PromptExecutionCreateFields)
       IN  IF ~PromptExecutionCreateValid(input)
           THEN Rejected("create_execution", 0, kw, "validation_error")
           ELSE LET row == PromptExecutionRow(id, PromptExecutionCreate(input), now')
                IN  IF ~ForeignKey(Some(row.prompt_id), prompts)
                    THEN Rejected("create_execution", 0, kw, "referential_error")
                    ELSE /\ prompt_executions' = Append(prompt_executions, row)
                         /\ prompts' = [prompts EXCEPT ![row.prompt_id] = RecordUse(@, now')]
                         /\ last' = Reply("create_execution", id, kw, "ok", NoRow)
                         /\ UNCHANGED prompt_categories

UpdateExecution(id, kw) ==
    /\ now < MaxRequests
    /\ now' = now + 1
    /\ id \in DOMAIN prompt_executions
    /\ LET input == Declared(kw, PromptExecutionUpdateFields)
           obj == UpdateObject(input, PromptExecutionUpdateFields)
       IN  IF ~PromptExecutionUpdateValid(input)
           THEN Rejected("update_execution", id, kw, "validation_error")
           ELSE IF NullViolation(obj, PromptExecutionNullable)
           THEN Rejected("update_execution", id, kw, "integrity_error")
           ELSE /\ prompt_executions' =
                     [prompt_executions EXCEPT ![id] =
                         ApplyUpdate(@, obj, PromptExecutionNullable)]
                /\ last' = Reply("update_execution", id, kw, "ok", prompt_executions[id])
                /\ UNCHANGED <<prompt_categories, prompts>>

---------------------------------------------------------------------------
\* Request payloads

NameA == <<"A">>
NameB == <<"B">>

\* One supplied field.
One(f, values) == {f :> v : v \in values}

CategoryCreateInputs ==
    LET names == One("name", {Some(NameA), Some(NameB)})
        extra == One("description", {Some(<<"d">>), Some(Str(501))})
                 \cup One("color", {Some(<<"#", "F", "F", "F">>),
                                    Some(<<"#", "F", "F", "0", "0", "0", "0">>),
                                    Some(Str(7)), Some(Str(8)), None})
    IN  names \cup {e @@ ("name" :> Some(NameA)) : e \in extra}
              \cup One("name", {Some(Str(100)), Some(Str(101)), None})
              \cup One("color", {Some(DefaultColor)})

CategoryUpdateInputs ==
    {<<>>}
    \cup One("name", {Some(NameA), Some(NameB), Some(Str(101)), None})
    \cup One("description", {Some(<<"d">>), Some(Str(501)), None})
    \cup One("color", {Some(<<"#", "F", "F", "F">>), Some(Str(7)), Some(Str(8)), None})
    \cup {("name" :> Some(NameB)) @@ ("color" :> Some(<<"#", "F", "F", "F">>))}

PromptRequired == ("title" :> Some(<<"T">>)) @@ ("content" :> Some(<<"c">>))

SomeDict == {<<"product", "shoes">>}

PromptCreateInputs ==
    LET extra == One("title", {Some(Str(200)), Some(Str(201)), None})
                 \cup One("content", {Some(Str(10000)), Some(Str(10001))})
                 \cup One("description", {Some(<<"d">>)})
                 \cup One("version", {Some(<<"2">>), Some(Str(21))})
                 \cup One("is_template", {Some(TRUE)})
                 \cup One("variables", {Some(SomeDict), None})
                 \cup One("settings", {Some(SomeDict)})
                 \cup One("prompt_metadata", {Some(SomeDict)})
                 \cup One("tags", {Some(<< <<"t">> >>)})
                 \cup One("category_id", {None, Some(1), Some(2)})
                 \cup One("is_active", {Some(FALSE)})
                 \cup One("usage_count", {Some(7)})
                 \cup One("rating", {Some(Dec(999, -2))})
    IN  {PromptRequired} \cup {e @@ PromptRequired : e \in extra}
        \cup One("title", {Some(<<"T">>)}) \cup One("content", {Some(<<"c">>)})

PromptUpdateInputs ==
    {<<>>}
    \cup One("title", {Some(<<"U">>), Some(Str(201)), None})
    \cup One("description", {Some(<<"d">>), None})
    \cup One("content", {Some(<<"d">>), Some(Str(10000)), Some(Str(10001))})
    \cup One("version", {Some(<<"2">>), Some(Str(21))})
    \cup One("is_active", {Some(FALSE), None})
    \cup One("is_template", {Some(TRUE)})
    \cup One("rating", {None, Some(Dec(0, -2)), Some(Dec(45, -1)), Some(Dec(500, -2)),
                        Some(Dec(501, -2)), Some(Dec(999, -2)), Some(Dec(-1, -2)),
                        Some(Dec(1000, -2)), Some(Dec(4555, -3))})
    \cup One("variables", {Some(SomeDict), None})
    \cup One("settings", {Some(SomeDict)})
    \cup One("prompt_metadata", {Some(SomeDict)})
    \cup One("tags", {Some(<< <<"t">> >>)})
    \cup One("category_id", {None, Some(1), Some(2)})
    \cup One("usage_count", {Some(0)})
    \cup One("last_used_at", {None})
    \cup One("created_at", {Some(0)})
    \cup One("id", {Some(9)})
    \cup {("title" :> Some(<<"U">>)) @@ ("rating" :> Some(Dec(45, -1)))
            @@ ("category_id" :> None)}

ExecutionCreateInputs ==
    LET ids == One("prompt_id", {Some(1), Some(2)})
        extra == One("input_data", {Some(SomeDict)})
                 \cup One("model_name", {Some(<<"m">>), Some(Str(101))})
                 \cup One("model_settings", {Some(SomeDict)})
                 \cup One("status", {Some(StatusPending)})
                 \cup One("completed_at", {Some(1)})
    IN  ids \cup {e @@ ("prompt_id" :> Some(1)) : e \in extra}
            \cup One("prompt_id", {None}) \cup {<<>>}

ExecutionUpdateInputs ==
    {<<>>}
    \cup One("output_data", {Some(SomeDict), None})
    \cup One("execution_time_ms", {Some(120), None})
    \cup One("token_count", {Some(42)})
    \cup One("cost", {Some(Dec(1234, -6)), Some(Dec(15, -1)), Some(Dec(1, -7))})
    \cup One("status", {Some(StatusCompleted), Some(StatusFailed), Some(StatusCancelled),
                        Some(StatusPending), Some(Str(50)), Some(Str(51)), None})
    \cup One("error_message", {Some(<<"e">>), Some(Str(1001))})
    \cup One("user_rating", {Some(0), Some(1), Some(5), Some(6), None})
    \cup One("user_feedback", {Some(<<"g">>), Some(Str(2001))})
    \cup One("completed_at", {Some(2), None})
    \cup One("prompt_id", {Some(9)})
    \cup {("output_data" :> Some(SomeDict)) @@ ("status" :> Some(StatusCompleted))
            @@ ("completed_at" :> Some(3))}

\* The plain requests that set the stage for another table's requests.
CategoryCreateBasic == One("name", {Some(NameA)})

PromptCreateBasic == {PromptRequired, ("category_id" :> Some(1)) @@ PromptRequired}

ExecutionCreateBasic == One("prompt_id", {Some(1), Some(2)})

\* The create requests that bear on content, references and counters.
PromptCreateKey ==
    LET extra == One("content", {Some(Str(10000)), Some(Str(10001))})
                 \cup One("category_id", {Some(1), Some(2)})
                 \cup One("usage_count", {Some(7)})
    IN  {PromptRequired} \cup {e @@ PromptRequired : e \in extra}

---------------------------------------------------------------------------
Init ==
    /\ prompt_categories = <<>>
    /\ prompts = <<>>
    /\ prompt_executions = <<>>
    /\ now = 0
    /\ last = Reply("none", 0, <<>>, "ok", NoRow)

NextCategory ==
    \/ \E kw \in CategoryCreateInputs : CreateCategory(kw)
    \/ \E id \in DOMAIN prompt_categories, kw \in CategoryUpdateInputs :
          UpdateCategory(id, kw)

SpecCategory == Init /\ [][NextCategory]_vars

\* Prompts, with a category to refer to and executions to count.
NextPrompt ==
    \/ \E kw \in CategoryCreateBasic : CreateCategory(kw)
    \/ \E kw \in PromptCreateKey : CreatePrompt(kw)
    \/ \E id \in DOMAIN prompts, kw \in PromptUpdateInputs : UpdatePrompt(id, kw)
    \/ \E kw \in ExecutionCreateBasic : CreateExecution(kw)

SpecPrompt == Init /\ [][NextPrompt]_vars

\* The create requests of the three tables.
NextCreate ==
    \/ \E kw \in CategoryCreateInputs : CreateCategory(kw)
    \/ \E kw \in PromptCreateInputs : CreatePrompt(kw)
    \/ \E kw \in ExecutionCreateInputs : CreateExecution(kw)

SpecCreate == Init /\ [][NextCreate]_vars

\* Executions of a prompt.
NextExecution ==
    \/ \E kw \in PromptCreateBasic : CreatePrompt(kw)
    \/ \E kw \in ExecutionCreateInputs : CreateExecution(kw)
    \/ \E id \in DOMAIN prompt_executions, kw \in ExecutionUpdateInputs :
          UpdateExecution(id, kw)

SpecExecution == Init /\ [][NextExecution]_vars

\* The three partial updates, on rows made by plain creates.
NextUpdate ==
    \/ \E kw \in CategoryCreateBasic : CreateCategory(kw)
    \/ \E kw \in PromptCreateBasic : CreatePrompt(kw)
    \/ \E kw \in ExecutionCreateBasic : CreateExecution(kw)
    \/ \E id \in DOMAIN prompt_categories, kw \in CategoryUpdateInputs :
          UpdateCategory(id, kw)
    \/ \E id \in DOMAIN prompts, kw \in PromptUpdateInputs : UpdatePrompt(id, kw)
    \/ \E id \in DOMAIN prompt_executions, kw \in ExecutionUpdateInputs :
          UpdateExecution(id, kw)

SpecUpdate == Init /\ [][NextUpdate]_vars

Next ==
    \/ \E kw \in CategoryCreateInputs : CreateCategory(kw)
    \/ \E id \in DOMAIN prompt_categories, kw \in CategoryUpdateInputs :
          UpdateCategory(id, kw)
    \/ \E kw \in PromptCreateInputs : CreatePrompt(kw)
    \/ \E id \in DOMAIN prompts, kw \in PromptUpdateInputs : UpdatePrompt(id, kw)
    \/ \E kw \in ExecutionCreateInputs : CreateExecution(kw)
    \/ \E id \in DOMAIN prompt_executions, kw \in ExecutionUpdateInputs :
          UpdateExecution(id, kw)

Spec == Init /\ [][Next]_vars

---------------------------------------------------------------------------
\* Properties

Applied(op) == last.op = op /\ last.result = "ok"

\* The column's value as an Optional, the way a payload carries it.
Stored(row, f, nullable) == IF f \in nullable THEN row[f] ELSE Some(row[f])

\* Equality of a stored and a supplied value; Decimals compare by value.
SameValue(f, a, b) ==
    IF f \in {"rating", "cost"} /\ a # None /\ b # None
    THEN Scaled(The(a), 6) = Scaled(The(b), 6)
    ELSE a = b

\* Every column but updated_at, which each update refreshes.
PartialUpdate(op, table, fields, nullable) ==
    Applied(op) =>
        \A f \in DOMAIN table[last.id] \ {"updated_at"} :
            IF f \in fields /\ f \in DOMAIN last.kw
            THEN SameValue(f, Stored(table[last.id], f, nullable), last.kw[f])
            ELSE table[last.id][f] = last.before[f]

\* C1: an applied update of a category, a prompt or an execution sets every
\* field of the Update schema that the payload carries to the value
\* supplied, and leaves every field the payload omits, and every column the
\* schema does not declare, at the value the row had before.
C1_PartialUpdate ==
    /\ PartialUpdate("update_category", prompt_categories,
                     {"name", "description", "color"}, {})
    /\ PartialUpdate("update_prompt", prompts,
                     {"title", "description", "content", "version", "is_active",
                      "is_template", "rating", "variables", "settings",
                      "prompt_metadata", "tags", "category_id"},
                     {"rating", "variables", "settings", "prompt_metadata", "tags",
                      "category_id"})
    /\ PartialUpdate("update_execution", prompt_executions,
                     {"output_data", "execution_time_ms", "token_count", "cost",
                      "status", "error_message", "user_rating", "user_feedback",
                      "completed_at"},
                     {"output_data", "execution_time_ms", "token_count", "cost",
                      "error_message", "user_rating", "user_feedback", "completed_at"})

\* An update that carried three fields was applied to a prompt of category
\* 1: the three are overwritten (the category cleared), the rest is as before.
C1_Witness ==
    /\ Applied("update_prompt")
    /\ DOMAIN last.kw = {"title", "rating", "category_id"}
    /\ last.before.category_id = Some(1)
    /\ prompts[last.id].category_id = None
    /\ prompts[last.id].title = <<"U">>
    /\ prompts[last.id].rating = Some(Dec(450, -2))
    /\ prompts[last.id].content = last.before.content

\* C2: for category_id and rating, an applied PromptUpdate that carries an
\* explicit null clears the stored value and one that omits the field
\* leaves it as it was, although the schema object holds None for the field
\* in both cases.
C2_NullIsNotAbsent ==
    Applied("update_prompt") =>
        LET obj == UpdateObject(last.kw, PromptUpdateFields)
        IN  \A f \in {"category_id", "rating"} :
              /\ f \in DOMAIN last.kw /\ last.kw[f] = None =>
                    /\ obj.values[f] = None
                    /\ prompts[last.id][f] = None
              /\ f \notin DOMAIN last.kw =>
                    /\ obj.values[f] = None
                    /\ prompts[last.id][f] = last.before[f]

\* A prompt of category 1 took an update whose only field is an explicit
\* null for category_id: the category is cleared, the omitted rating and
\* title are as before.
C2_Witness ==
    /\ Applied("update_prompt")
    /\ DOMAIN last.kw = {"category_id"}
    /\ last.kw["category_id"] = None
    /\ last.before.category_id = Some(1)
    /\ prompts[last.id].category_id = None
    /\ prompts[last.id].rating = last.before.rating
    /\ prompts[last.id].title = last.before.title

\* C3: a created row holds the declared default, not null, in every
\* defaulted field the payload omits: a prompt has version "1.0.0",
\* is_active true, is_template false, usage_count 0 and empty JSON fields; an
\* execution starts with status "completed" and completed_at unset; a
\* category has an empty description and color #3B82F6.
C3_DefaultsOnCreate ==
    /\ Applied("create_category") =>
          LET row == prompt_categories[last.id]
          IN  /\ "description" \notin DOMAIN last.kw => row.description = <<>>
              /\ "color" \notin DOMAIN last.kw =>
                    row.color = <<"#", "3", "B", "8", "2", "F", "6">>
    /\ Applied("create_prompt") =>
          LET row == prompts[last.id]
          IN  /\ "version" \notin DOMAIN last.kw =>
                    row.version = <<"1", ".", "0", ".", "0">>
              /\ "description" \notin DOMAIN last.kw => row.description = <<>>
              /\ "is_template" \notin DOMAIN last.kw => row.is_template = FALSE
              /\ \A f \in {"variables", "settings", "prompt_metadata"} :
                    f \notin DOMAIN last.kw => row[f] = Some({})
              /\ "tags" \notin DOMAIN last.kw => row.tags = Some(<<>>)
              /\ "category_id" \notin DOMAIN last.kw => row.category_id = None
              /\ row.is_active = TRUE
              /\ row.usage_count = 0
              /\ row.rating = None
              /\ row.last_used_at = None
    /\ Applied("create_execution") =>
          LET row == prompt_executions[last.id]
          IN  /\ row.status = <<"c", "o", "m", "p", "l", "e", "t", "e", "d">>
              /\ row.completed_at = None
              /\ "model_name" \notin DOMAIN last.kw => row.model_name = <<>>
              /\ \A f \in {"input_data", "model_settings"} :
                    f \notin DOMAIN last.kw => row[f] = Some({})

\* A prompt was created from a title and a content alone and holds the
\* defaults.
C3_Witness ==
    /\ Applied("create_prompt")
    /\ DOMAIN last.kw = {"title", "content"}
    /\ prompts[last.id].version = DefaultVersion
    /\ prompts[last.id].is_active
    /\ prompts[last.id].usage_count = 0

\* A supplied reference that names no row of the table.
Dangling(kw, f, table) ==
    f \in DOMAIN kw /\ kw[f] # None /\ The(kw[f]) \notin DOMAIN table

ReferencesExist ==
    /\ \A p \in DOMAIN prompts :
          prompts[p].category_id # None =>
             The(prompts[p].category_id) \in DOMAIN prompt_categories
    /\ \A e \in DOMAIN prompt_executions :
          prompt_executions[e].prompt_id \in DOMAIN prompts

\* C4: creating a prompt whose category_id names no category, or an
\* execution whose prompt_id names no prompt, is answered with a referential
\* error and writes no row, and after every request each stored category_id
\* and prompt_id names an existing row.
C4_ReferentialIntegrity ==
    [][ /\ /\ last'.op = "create_prompt"
           /\ DOMAIN last'.kw \subseteq {"title", "content", "category_id"}
           /\ Dangling(last'.kw, "category_id", prompt_categories)
           => last'.result = "referential_error" /\ prompts' = prompts
        /\ /\ last'.op = "create_execution"
           /\ Dangling(last'.kw, "prompt_id", prompts)
           => /\ last'.result = "referential_error"
              /\ prompt_executions' = prompt_executions
              /\ prompts' = prompts
        /\ ReferencesExist' ]_vars

\* With category 1 stored, a prompt naming category 2 was refused.
C4_Witness ==
    /\ last.op = "create_prompt"
    /\ last.result = "referential_error"
    /\ last.kw["category_id"] = Some(2)
    /\ Len(prompt_categories) = 1
    /\ Len(prompts) = 0

NamesUnique ==
    \A i, j \in DOMAIN prompt_categories :
        i # j => prompt_categories[i].name # prompt_categories[j].name

\* C5: creating a category under a name a stored category holds fails (with
\* a uniqueness error when the name is all the payload carries) and writes no
\* row, and after every create and every rename no two stored categories
\* have the same name.
C5_NameUniqueness ==
    [][ /\ /\ last'.op = "create_category"
           /\ "name" \in DOMAIN last'.kw
           /\ last'.kw["name"] # None
           /\ (\E i \in DOMAIN prompt_categories :
                  prompt_categories[i].name = The(last'.kw["name"]))
           => /\ last'.result \in {"uniqueness_error", "validation_error"}
              /\ DOMAIN last'.kw = {"name"} => last'.result = "uniqueness_error"
              /\ prompt_categories' = prompt_categories
        /\ NamesUnique' ]_vars

\* Two categories are stored and renaming one to the other's name was
\* refused.
C5_Witness ==
    /\ Len(prompt_categories) = 2
    /\ last.op = "update_category"
    /\ last.result = "uniqueness_error"
    /\ "name" \in DOMAIN last.kw

\* C6: a PromptCreate or PromptUpdate whose content has 10000 characters is
\* accepted and stored as sent; one whose content is longer is answered with
\* a validation error and writes nothing; no stored content exceeds 10000
\* characters.
C6_ContentBoundary ==
    [][ /\ /\ last'.op \in {"create_prompt", "update_prompt"}
           /\ "content" \in DOMAIN last'.kw
           /\ last'.kw["content"] # None
           => LET content == The(last'.kw["content"])
              IN  /\ Len(content) > 10000 =>
                        last'.result = "validation_error" /\ prompts' = prompts
                  /\ /\ Len(content) = 10000
                     /\ DOMAIN last'.kw \subseteq {"title", "content"}
                     /\ ("title" \in DOMAIN last'.kw =>
                           last'.kw["title"] = Some(<<"T">>))
                     => /\ last'.result = "ok"
                        /\ prompts'[last'.id].content = content
        /\ \A p \in DOMAIN prompts' : Len(prompts'[p].content) <= 10000 ]_vars

\* A prompt holds a content of 10000 characters and an update to 10001
\* characters was refused.
C6_Witness ==
    /\ last.op = "update_prompt"
    /\ last.result = "validation_error"
    /\ "content" \in DOMAIN last.kw
    /\ Len(The(last.kw["content"])) = 10001
    /\ Len(prompts[last.id].content) = 10000

InRatingRange(d) == 0 <= Scaled(d, 3) /\ Scaled(d, 3) <= 5000

\* C7: every stored rating lies in [0.00, 5.00] and a PromptUpdate that
\* carries a rating outside that range is rejected.
C7_RatingRange ==
    /\ \A p \in DOMAIN prompts :
          prompts[p].rating # None => InRatingRange(The(prompts[p].rating))
    /\ /\ last.op = "update_prompt"
       /\ "rating" \in DOMAIN last.kw
       /\ last.kw["rating"] # None
       /\ ~InRatingRange(The(last.kw["rating"]))
       => last.result = "validation_error"

\* C8: every stored status is completed, failed or cancelled and a
\* PromptExecutionUpdate that carries another status is rejected.
C8_StatusDomain ==
    LET statuses == {<<"c", "o", "m", "p", "l", "e", "t", "e", "d">>,
                     <<"f", "a", "i", "l", "e", "d">>,
                     <<"c", "a", "n", "c", "e", "l", "l", "e", "d">>}
    IN  /\ \A e \in DOMAIN prompt_executions :
              prompt_executions[e].status \in statuses
        /\ /\ last.op = "update_execution"
           /\ "status" \in DOMAIN last.kw
           /\ last.kw["status"] # None
           /\ The(last.kw["status"]) \notin statuses
           => last.result = "validation_error"

\* C9: no request lowers a prompt's usage_count; a PromptUpdate changes none
\* of usage_count, last_used_at, id and created_at, whatever keys its payload
\* carries; a created prompt starts at usage_count 0 and last_used_at unset,
\* whatever its payload carries; recording an execution is what raises the
\* count.
C9_UsageCount ==
    [][ /\ \A p \in DOMAIN prompts :
              prompts'[p].usage_count >= prompts[p].usage_count
        /\ last'.op = "update_prompt" =>
              (\A p \in DOMAIN prompts :
                 \A f \in {"usage_count", "last_used_at", "id", "created_at"} :
                    prompts'[p][f] = prompts[p][f])
        /\ (last'.op = "create_prompt" /\ last'.result = "ok") =>
              /\ prompts'[last'.id].usage_count = 0
              /\ prompts'[last'.id].last_used_at = None
        /\ (\E p \in DOMAIN prompts : prompts'[p].usage_count # prompts[p].usage_count)
              => last'.op = "create_execution" ]_vars

\* A prompt used once took an update whose payload carries usage_count and
\* still counts one use.
C9_Witness ==
    /\ Applied("update_prompt")
    /\ "usage_count" \in DOMAIN last.kw
    /\ prompts[last.id].usage_count = 1
    /\ prompts[last.id].last_used_at # None

HexDigits ==
    {"0", "1", "2", "3", "4", "5", "6", "7", "8", "9",
     "A", "B", "C", "D", "E", "F", "a", "b", "c", "d", "e", "f"}

IsHexColor(s) ==
    /\ Len(s) = 7
    /\ s[1] = "#"
    /\ \A i \in 2..7 : s[i] \in HexDigits

\* C10: every stored color is '#' followed by six hex digits, and a create
\* or update that carries a shorter or a non-hex color is rejected.
C10_ColorFormat ==
    /\ \A c \in DOMAIN prompt_categories : IsHexColor(prompt_categories[c].color)
    /\ /\ last.op \in {"create_category", "update_category"}
       /\ "color" \in DOMAIN last.kw
       /\ last.kw["color"] # None
       /\ ~IsHexColor(The(last.kw["color"]))
       => last.result # "ok"

====
